---- MODULE Spec2Model ----
(***************************************************************************)
(* X_Agent: sentiment aggregation over the analyses / tweets tables.       *)
(*                                                                         *)
(* The model covers the two relational tables (schema in page.tsx lines    *)
(* 121-143), the Monthly and Weekly Analysis queries (SearchBar.tsx lines  *)
(* 120-147), the table reset script (unnamed/part_000) and the report      *)
(* whose shape is declared by SentimentReport (SearchBar.tsx lines         *)
(* 108-119).  The backend that inserts rows and builds the report is not   *)
(* part of the sources at hand; those parts follow the written design.     *)
(* It also covers the page: the search form (SearchBar.tsx lines 10-40),   *)
(* handleSearch with its three awaited requests (page.tsx lines 17-40,     *)
(* unnamed/part_001 lines 197-231) and what Home renders (page.tsx lines   *)
(* 55-79).                                                                 *)
(*                                                                         *)
(* Time is counted in ticks since Monday 2024-01-01 00:00 UTC, TicksPerDay *)
(* ticks to a day, so that day 0 is both a week start and a month start.   *)
(***************************************************************************)
EXTENDS Integers, Sequences, FiniteSets, TLC

(* ---------------- bounds of the model ---------------- *)
MaxItems == 3
MaxTweetId == 2
MaxRuns == 2
MaxBatch == 2
MaxTopN == 2
MaxSearches == 2
TicksPerDay == 2
RatioDigits == 4

RatioScale == 10 ^ RatioDigits

Users == {"alice", "bob"}
Sentiments == {"positive", "neutral", "negative"}
Scores == {1, 2}
\* Mon Jan 1 (not at midnight), Wed Jan 31 (not at midnight), Thu Feb 1 00:00:
\* the last two share a week, the first two a month
Times == {1, 30 * TicksPerDay + 1, 31 * TicksPerDay}
ReportTimes == {1, 30 * TicksPerDay + 1}
TweetIds == 1 .. MaxTweetId
Fields == {"day", "week", "month"}

None == [kind |-> "none"]

\* the store and the last query with its answer
VARIABLES analyses, tweets, query, result

\* the page: the text of the search field (username of SearchBar), the state
\* of Home, and the invocations of handleSearch in the order of their start
VARIABLES searchText, timeSeriesData, sentimentReport, loading, error, searches

\* the name whose search wrote timeSeriesData and sentimentReport last
VARIABLES seriesOf, reportOf

storeVars == <<analyses, tweets, query, result>>

pageVars == <<searchText, timeSeriesData, sentimentReport, loading, error,
              searches, seriesOf, reportOf>>

vars == <<analyses, tweets, query, result, searchText, timeSeriesData,
          sentimentReport, loading, error, searches, seriesOf, reportOf>>

(* ---------------- calendar ---------------- *)
\* first days of January, February and March 2024, in days since 2024-01-01
MonthStarts == {0, 31, 60}

MonthStart(day) ==
  CHOOSE m \in MonthStarts : m <= day /\ \A n \in MonthStarts : n <= day => n <= m

NextMonthStart(day) ==
  CHOOSE m \in MonthStarts \cup {91} :
    m > day /\ \A n \in MonthStarts \cup {91} : n > day => m <= n

\* Postgres date_trunc(field, timestamptz): the start of the day, of the ISO
\* week (Monday) or of the month that holds ts
date_trunc(field, ts) ==
  LET day == ts \div TicksPerDay
  IN  CASE field = "day" -> day * TicksPerDay
        [] field = "week" -> (day - (day % 7)) * TicksPerDay
        [] field = "month" -> MonthStart(day) * TicksPerDay

\* the exclusive end of the period that starts at start
periodEnd(field, start) ==
  LET day == start \div TicksPerDay
  IN  CASE field = "day" -> (day + 1) * TicksPerDay
        [] field = "week" -> (day + 7) * TicksPerDay
        [] field = "month" -> NextMonthStart(day) * TicksPerDay

(* ---------------- relational helpers ---------------- *)
\* FROM analyses AS a JOIN tweets AS t ON a.analysis_id = t.analysis_id
\* WHERE a.username = username: the tweet rows, in scan order
JoinAll(an, tw, username) ==
  SelectSeq(tw, LAMBDA t : \E i \in DOMAIN an : an[i].analysis_id = t.analysis_id)

JoinWhere(an, tw, username) ==
  SelectSeq(tw, LAMBDA t : \E i \in DOMAIN an :
                  an[i].analysis_id = t.analysis_id /\ an[i].username = username)

\* GROUP BY 1: the distinct values of the first select expression, in the
\* order in which the scan meets them
GroupBy(rows, field) ==
  LET key(i) == date_trunc(field, rows[i].created_at)
      first == SelectSeq([i \in DOMAIN rows |-> i],
                         LAMBDA i : \A j \in 1 .. (i - 1) : key(j) # key(i))
  IN  [k \in DOMAIN first |-> key(first[k])]

RemoveAt(s, i) == [j \in 1 .. (Len(s) - 1) |-> IF j < i THEN s[j] ELSE s[j + 1]]

RECURSIVE OrderByDesc(_)
OrderByDesc(s) ==
  IF s = <<>> THEN <<>>
  ELSE LET m == CHOOSE i \in DOMAIN s : \A j \in DOMAIN s : s[j] <= s[i]
       IN  <<s[m]>> \o OrderByDesc(RemoveAt(s, m))

OrderByNone(s) == s

RECURSIVE OrderBy(_)
\* ORDER BY 1: ascending
OrderBy(s) ==
  IF s = <<>> THEN <<>>
  ELSE LET m == CHOOSE i \in DOMAIN s : \A j \in DOMAIN s : s[i] <= s[j]
       IN  <<s[m]>> \o OrderBy(RemoveAt(s, m))

\* numeric / numeric: the quotient rounded to the result scale
numeric_div(n, d) == (2 * n * RatioScale + d) \div (2 * d)

GroupRows(rows, field, key) ==
  SelectSeq(rows, LAMBDA t : date_trunc(field, t.created_at) = key)

SumCaseNegativeAsNeutral(grp, label) ==
  Cardinality({i \in DOMAIN grp :
      grp[i].sentiment = (IF label = "negative" THEN "neutral" ELSE label)})

\* SUM(CASE WHEN t.sentiment = label THEN 1 ELSE 0 END)
SumCase(grp, label) ==
  Cardinality({i \in DOMAIN grp : grp[i].sentiment = label})

\* SUM(CASE ...)::decimal / COUNT(*)
Ratio(grp, label) == numeric_div(SumCase(grp, label), Len(grp))

(* ---------------- the analysis queries ---------------- *)
\* Weekly Analysis: one row per week that holds a tweet of the user's
\* analyses, with COUNT(*) and the three ratios, ordered by week start
WeeklyAnalysis(an, tw, username) ==
  LET rows == JoinWhere(an, tw, username)
      keys == OrderBy(GroupBy(rows, "week"))
  IN  [k \in DOMAIN keys |->
        LET grp == GroupRows(rows, "week", keys[k])
        IN  [time_period |-> keys[k],
             total_tweets |-> Len(grp),
             positive_ratio |-> Ratio(grp, "positive"),
             neutral_ratio |-> Ratio(grp, "neutral"),
             negative_ratio |-> Ratio(grp, "negative")]]

\* Monthly Analysis: as the weekly query by month, but its select list has
\* no COUNT(*) column
MonthlyAnalysis(an, tw, username) ==
  LET rows == JoinWhere(an, tw, username)
      keys == OrderBy(GroupBy(rows, "month"))
  IN  [k \in DOMAIN keys |->
        LET grp == GroupRows(rows, "month", keys[k])
        IN  [time_period |-> keys[k],
             positive_ratio |-> Ratio(grp, "positive"),
             neutral_ratio |-> Ratio(grp, "neutral"),
             negative_ratio |-> Ratio(grp, "negative")]]

\* the daily variant of the design (period_type 'day' of the
\* sentiment_timeseries table); no query for it is part of the sources
DailyAnalysis(an, tw, username) ==
  LET rows == JoinWhere(an, tw, username)
      keys == OrderBy(GroupBy(rows, "day"))
  IN  [k \in DOMAIN keys |->
        LET grp == GroupRows(rows, "day", keys[k])
        IN  [time_period |-> keys[k],
             total_tweets |-> Len(grp),
             positive_ratio |-> Ratio(grp, "positive"),
             neutral_ratio |-> Ratio(grp, "neutral"),
             negative_ratio |-> Ratio(grp, "negative")]]

bucketByPeriod(an, tw, periodType, username) ==
  CASE periodType = "day" -> DailyAnalysis(an, tw, username)
    [] periodType = "week" -> WeeklyAnalysis(an, tw, username)
    [] periodType = "month" -> MonthlyAnalysis(an, tw, username)

(* ---------------- the report ---------------- *)
RanksBeforeScoreOnly(a, b) == a.sentiment_score > b.sentiment_score

\* a ranks before b: higher score first, then the later created_at
RanksBefore(a, b) ==
  \/ a.sentiment_score > b.sentiment_score
  \/ a.sentiment_score = b.sentiment_score /\ a.created_at > b.created_at

RECURSIVE StableSort(_)
\* stable sort by RanksBefore: the first of the best-ranked items leads
StableSort(s) ==
  IF s = <<>> THEN <<>>
  ELSE LET best == CHOOSE i \in DOMAIN s :
                     /\ \A j \in DOMAIN s : ~RanksBefore(s[j], s[i])
                     /\ \A j \in 1 .. (i - 1) : RanksBefore(s[i], s[j])
       IN  <<s[best]>> \o StableSort(RemoveAt(s, best))

TakeAll(s, n) == s

\* the first n elements, fewer when s is shorter
Take(s, n) == IF Len(s) <= n THEN s ELSE SubSeq(s, 1, n)

TopList(items, label, topN) ==
  Take(StableSort(SelectSeq(items, LAMBDA t : t.sentiment = label)), topN)

\* raw counts per label
Summary(items) ==
  [positive |-> SumCase(items, "positive"),
   neutral |-> SumCase(items, "neutral"),
   negative |-> SumCase(items, "negative")]

buildReportCountingTops(items, topN) ==
  [summary |-> [positive |-> Len(TopList(items, "positive", topN)),
                neutral |-> Len(TopList(items, "neutral", topN)),
                negative |-> Len(TopList(items, "negative", topN))],
   top_positive |-> TopList(items, "positive", topN),
   top_neutral |-> TopList(items, "neutral", topN),
   top_negative |-> TopList(items, "negative", topN)]

buildReport(items, topN) ==
  [summary |-> Summary(items),
   top_positive |-> TopList(items, "positive", topN),
   top_neutral |-> TopList(items, "neutral", topN),
   top_negative |-> TopList(items, "negative", topN)]

(* ---------------- tables ---------------- *)
\* a classified tweet as an analysis run hands it to the store
Items == [tweet_id : TweetIds, created_at : Times,
          sentiment : Sentiments, sentiment_score : Scores]

TweetRow(item, analysis_id) ==
  [tweet_id |-> item.tweet_id, analysis_id |-> analysis_id,
   created_at |-> item.created_at, sentiment |-> item.sentiment,
   sentiment_score |-> item.sentiment_score]

AnalysisRow(analysis_id, username, tweet_count) ==
  [analysis_id |-> analysis_id, username |-> username, tweet_count |-> tweet_count]

\* tweet_id BIGINT PRIMARY KEY: no two of the rows share a tweet_id
PrimaryKeyHolds(rows) ==
  \A i, j \in DOMAIN rows : rows[i].tweet_id = rows[j].tweet_id => i = j

Batches == UNION {[1 .. n -> Items] : n \in 1 .. MaxBatch}

(* ---------------- operations on the store ---------------- *)
\* One analysis run for username over a batch of distinct tweets: the run's
\* row is inserted first (its serial analysis_id is the foreign key of the
\* tweet rows), then the batch in one INSERT, which the primary key rejects
\* as a whole when a tweet_id of the batch is already stored.
AnalysisRun(username, batch) ==
  /\ Len(analyses) < MaxRuns
  /\ PrimaryKeyHolds(batch)
  /\ LET id == Len(analyses) + 1
         rows == tweets \o [i \in DOMAIN batch |-> TweetRow(batch[i], id)]
     IN  /\ analyses' = Append(analyses, AnalysisRow(id, username, Len(batch)))
         /\ tweets' = IF PrimaryKeyHolds(rows) THEN rows ELSE tweets
  /\ UNCHANGED <<query, result>>
  /\ UNCHANGED pageVars

\* TRUNCATE TABLE tweets, graph_data, analyses RESTART IDENTITY CASCADE
TruncateTables ==
  /\ analyses # <<>>
  /\ analyses' = <<>>
  /\ tweets' = <<>>
  /\ UNCHANGED <<query, result>>
  /\ UNCHANGED pageVars

\* GET user-tweets/weekly_or_monthly_analysis/{username}
PeriodQuery(periodType, username) ==
  /\ query' = [kind |-> "buckets", periodType |-> periodType, username |-> username]
  /\ result' = bucketByPeriod(analyses, tweets, periodType, username)
  /\ UNCHANGED <<analyses, tweets>>
  /\ UNCHANGED pageVars

\* GET reports/{username}
ReportQuery(username, topN) ==
  /\ query' = [kind |-> "report", topN |-> topN, username |-> username]
  /\ result' = buildReport(JoinWhere(analyses, tweets, username), topN)
  /\ UNCHANGED <<analyses, tweets>>
  /\ UNCHANGED pageVars

(* ---------------- the page ---------------- *)
\* values of the page state: null, undefined, a string, an object
Null == [kind |-> "null"]
Undefined == [kind |-> "undefined"]
Str(text) == [kind |-> "string", value |-> text]
Obj(value) == [kind |-> "object", value |-> value]

\* x && ...: null, undefined and the empty string do not pass
Truthy(x) == x.kind = "object" \/ (x.kind = "string" /\ x.value # "")

\* useState('') of SearchBar and the four useState of Home; no search yet
InitPage ==
  /\ searchText = <<>>
  /\ timeSeriesData = <<>>
  /\ sentimentReport = Null
  /\ loading = FALSE
  /\ error = Null
  /\ searches = <<>>
  /\ seriesOf = <<>>
  /\ reportOf = <<>>

\* texts of the search field, character by character; " " is white space
Inputs == {<<>>, <<" ">>, <<"alice">>, <<" ", "bob", " ">>}

RECURSIVE trimStart(_)
trimStart(text) ==
  IF text # <<>> /\ Head(text) = " " THEN trimStart(Tail(text)) ELSE text

RECURSIVE trimEnd(_)
trimEnd(text) ==
  IF text # <<>> /\ text[Len(text)] = " "
  THEN trimEnd(SubSeq(text, 1, Len(text) - 1))
  ELSE text

\* String.prototype.trim
trim(text) == trimEnd(trimStart(text))

Requests == {"getUserTweets", "getWeeklyAnalysis", "getSentimentReports"}

\* throw new Error(...) of the three api functions when response.ok is false
FailureMessage(request) ==
  CASE request = "getUserTweets" -> "Failed to fetch user tweets"
    [] request = "getWeeklyAnalysis" -> "Failed to fetch weekly analysis"
    [] request = "getSentimentReports" -> "Failed to fetch sentiment reports"

\* what a request can throw: the api function's Error, or the TypeError with
\* which fetch itself rejects
Thrown(request) ==
  {[isError |-> TRUE, message |-> FailureMessage(request)],
   [isError |-> TRUE, message |-> "Failed to fetch"]}

\* err instanceof Error ? err.message : 'An error occurred'
ErrorMessage(err) == IF err.isError THEN err.message ELSE "An error occurred"

\* answers of the backend: the weekly rows of a user with one tweet and of a
\* user with none, and the reports of a user (none, or one)
SampleAnalyses == <<AnalysisRow(1, "alice", 1), AnalysisRow(2, "bob", 0)>>

SampleTweets ==
  <<TweetRow([tweet_id |-> 1, created_at |-> 1, sentiment |-> "positive",
              sentiment_score |-> 1], 1)>>

SeriesAnswers == {WeeklyAnalysis(SampleAnalyses, SampleTweets, u) : u \in Users}

ReportAnswers ==
  {<<>>, <<buildReport(JoinWhere(SampleAnalyses, SampleTweets, "alice"), MaxTopN)>>}

\* the requests of one invocation, each pending, ok or failed
Issued(request) == [request |-> request, state |-> "pending", message |-> ""]

Settled(log, state, message) ==
  [log EXCEPT ![Len(log)] = [request |-> log[Len(log)].request,
                             state |-> state, message |-> message]]

\* SearchBar: onChange of the input
onChange(text) ==
  /\ text # searchText
  /\ searchText' = text
  /\ UNCHANGED <<timeSeriesData, sentimentReport, loading, error, searches,
                 seriesOf, reportOf>>
  /\ UNCHANGED storeVars

handleSearchWithoutAwait(name) ==
  /\ loading' = TRUE
  /\ error' = Null
  /\ searches' = Append(searches,
       [username |-> name, pc |-> "getWeeklyAnalysis",
        log |-> <<Issued("getUserTweets"), Issued("getWeeklyAnalysis")>>])
  /\ UNCHANGED <<timeSeriesData, sentimentReport, seriesOf, reportOf>>

\* Home.handleSearch up to its first await: setLoading(true), setError(null)
\* and the getUserTweets request
handleSearch(name) ==
  /\ loading' = TRUE
  /\ error' = Null
  /\ searches' = Append(searches,
       [username |-> name, pc |-> "getUserTweets",
        log |-> <<Issued("getUserTweets")>>])
  /\ UNCHANGED <<timeSeriesData, sentimentReport, seriesOf, reportOf>>

\* SearchBar.handleSubmit: a text that is blank after trim starts no search
handleSubmit ==
  /\ Len(searches) < MaxSearches
  /\ IF trim(searchText) # <<>>
     THEN handleSearch(trim(searchText)) /\ UNCHANGED searchText
     ELSE UNCHANGED pageVars
  /\ UNCHANGED storeVars

\* await getUserTweets(username) returns: the weekly request goes out
getUserTweetsResolved(s) ==
  /\ searches[s].pc = "getUserTweets"
  /\ searches' = [searches EXCEPT
       ![s].pc = "getWeeklyAnalysis",
       ![s].log = Append(Settled(@, "ok", ""), Issued("getWeeklyAnalysis"))]
  /\ UNCHANGED <<searchText, timeSeriesData, sentimentReport, loading, error,
                 seriesOf, reportOf>>
  /\ UNCHANGED storeVars

\* await getWeeklyAnalysis(username) returns: setTimeSeriesData(json.data),
\* and the report request goes out
getWeeklyAnalysisResolved(s, data) ==
  /\ searches[s].pc = "getWeeklyAnalysis"
  /\ timeSeriesData' = data
  /\ seriesOf' = searches[s].username
  /\ searches' = [searches EXCEPT
       ![s].pc = "getSentimentReports",
       ![s].log = Append(Settled(@, "ok", ""), Issued("getSentimentReports"))]
  /\ UNCHANGED <<searchText, sentimentReport, loading, error, reportOf>>
  /\ UNCHANGED storeVars

\* await getSentimentReports(username) returns: setSentimentReport of the
\* first report (undefined when there is none), then finally setLoading(false)
getSentimentReportsResolved(s, reportJson) ==
  /\ searches[s].pc = "getSentimentReports"
  /\ sentimentReport' = IF reportJson = <<>> THEN Undefined ELSE Obj(reportJson[1])
  /\ reportOf' = searches[s].username
  /\ loading' = FALSE
  /\ searches' = [searches EXCEPT
       ![s].pc = "done", ![s].log = Settled(@, "ok", "")]
  /\ UNCHANGED <<searchText, timeSeriesData, error, seriesOf>>
  /\ UNCHANGED storeVars

requestRejectedWithoutFinally(s, err) ==
  /\ searches[s].pc \in Requests
  /\ error' = Str(ErrorMessage(err))
  /\ searches' = [searches EXCEPT
       ![s].pc = "done", ![s].log = Settled(@, "failed", err.message)]
  /\ UNCHANGED <<searchText, timeSeriesData, sentimentReport, loading,
                 seriesOf, reportOf>>
  /\ UNCHANGED storeVars

\* the awaited request throws: catch sets the error, finally
\* setLoading(false); the rest of the try block is skipped
requestRejected(s, err) ==
  /\ searches[s].pc \in Requests
  /\ error' = Str(ErrorMessage(err))
  /\ loading' = FALSE
  /\ searches' = [searches EXCEPT
       ![s].pc = "done", ![s].log = Settled(@, "failed", err.message)]
  /\ UNCHANGED <<searchText, timeSeriesData, sentimentReport, seriesOf, reportOf>>
  /\ UNCHANGED storeVars

\* the pending request of invocation s settles, either way
Settle(s) ==
  \/ getUserTweetsResolved(s)
  \/ \E data \in SeriesAnswers : getWeeklyAnalysisResolved(s, data)
  \/ \E reportJson \in ReportAnswers : getSentimentReportsResolved(s, reportJson)
  \/ \E request \in Requests :
       /\ searches[s].pc = request
       /\ \E err \in Thrown(request) : requestRejected(s, err)

\* what Home renders
SpinnerRendered == loading
ErrorRendered == Truthy(error)

GraphRenderedDespiteError == ~loading /\ Len(timeSeriesData) > 0

GraphRendered == ~loading /\ ~Truthy(error) /\ Len(timeSeriesData) > 0
SummaryRendered == GraphRendered /\ Truthy(sentimentReport)

\* the page over an empty store
InitHome ==
  /\ analyses = <<>>
  /\ tweets = <<>>
  /\ query = None
  /\ result = <<>>
  /\ InitPage

NextPage ==
  \/ \E text \in Inputs : onChange(text)
  \/ handleSubmit
  \/ \E s \in DOMAIN searches : Settle(s)

SpecPage == InitHome /\ [][NextPage]_vars

\* every request settles in the end
FairSpecPage ==
  SpecPage /\ \A s \in 1 .. MaxSearches : WF_vars(s \in DOMAIN searches /\ Settle(s))

(* ---------------- the store with its analysis runs ---------------- *)
Init ==
  /\ analyses = <<>>
  /\ tweets = <<>>
  /\ query = None
  /\ result = <<>>
  /\ InitPage

Next ==
  \/ \E u \in Users, b \in Batches : AnalysisRun(u, b)
  \/ TruncateTables

Spec == Init /\ [][Next]_vars

(* ---------------- bucketing a given snapshot ---------------- *)
\* the stored rows of a snapshot: row i has tweet_id i
Snapshot(rows) == [i \in DOMAIN rows |-> TweetRow([tweet_id |-> i] @@ rows[i], rows[i].analysis_id)]

RunsOf(users, rows) ==
  [r \in DOMAIN users |->
     AnalysisRow(r, users[r], Cardinality({i \in DOMAIN rows : rows[i].analysis_id = r}))]

\* the rows of a snapshot with one run of each user: the first k rows belong
\* to alice's run, the rest to bob's
BucketRows(rows, k) ==
  [i \in DOMAIN rows |-> [created_at |-> rows[i].created_at,
                          sentiment |-> rows[i].sentiment,
                          sentiment_score |-> 1,
                          analysis_id |-> IF i <= k THEN 1 ELSE 2]]

InitBuckets ==
  /\ \E n \in 0 .. MaxItems : \E k \in 0 .. n :
       \E rows \in [1 .. n -> [created_at : Times, sentiment : Sentiments]] :
         /\ tweets = Snapshot(BucketRows(rows, k))
         /\ analyses = RunsOf(<<"alice", "bob">>, BucketRows(rows, k))
  /\ query = None
  /\ result = <<>>
  /\ InitPage

NextBuckets == \E p \in Fields, u \in Users : PeriodQuery(p, u)

SpecBuckets == InitBuckets /\ [][NextBuckets]_vars

(* ---------------- reporting on a given snapshot ---------------- *)
\* the rows of a snapshot with one run, of alice; bob has no item
ReportRows(rows) ==
  [i \in DOMAIN rows |-> [created_at |-> rows[i].created_at,
                          sentiment |-> rows[i].sentiment,
                          sentiment_score |-> rows[i].sentiment_score,
                          analysis_id |-> 1]]

InitReport ==
  /\ \E n \in 0 .. MaxItems :
       \E rows \in [1 .. n -> [created_at : ReportTimes, sentiment : Sentiments,
                               sentiment_score : Scores]] :
         /\ tweets = Snapshot(ReportRows(rows))
         /\ analyses = RunsOf(<<"alice">>, ReportRows(rows))
  /\ query = None
  /\ result = <<>>
  /\ InitPage

NextReport == \E u \in Users, n \in 0 .. MaxTopN : ReportQuery(u, n)

SpecReport == InitReport /\ [][NextReport]_vars

(* ---------------- what the claims speak of ---------------- *)
QueriedBuckets == query.kind = "buckets"
QueriedReport == query.kind = "report"

\* the stored tweets (by position) that belong to an analysis of username
InputOf(username) ==
  {i \in DOMAIN tweets : \E a \in DOMAIN analyses :
      /\ analyses[a].analysis_id = tweets[i].analysis_id
      /\ analyses[a].username = username}

\* the input items whose created_at lies in [periodStart, periodEnd) of b
ItemsIn(b) ==
  {i \in InputOf(query.username) :
      /\ b.time_period <= tweets[i].created_at
      /\ tweets[i].created_at < periodEnd(query.periodType, b.time_period)}

RatioSum(b) == b.positive_ratio + b.neutral_ratio + b.negative_ratio

Swap(s, i, j) ==
  [k \in DOMAIN s |-> IF k = i THEN s[j] ELSE IF k = j THEN s[i] ELSE s[k]]

\* C1: in every bucket of a day, week or month query the three ratios add up
\* to 1 within one unit of the last digit of the quotients (each quotient is
\* off by at most half a unit), and each lies between 0 and 1.
C1_RatiosSumToOne ==
  QueriedBuckets =>
    \A k \in DOMAIN result :
      /\ RatioSum(result[k]) - RatioScale \in -1 .. 1
      /\ \A r \in {result[k].positive_ratio, result[k].neutral_ratio,
                   result[k].negative_ratio} : r \in 0 .. RatioScale

\* a bucket of three items, one of each label: the thirds are rounded
C1_Witness ==
  /\ QueriedBuckets
  /\ \E k \in DOMAIN result :
       /\ Cardinality(ItemsIn(result[k])) = 3
       /\ result[k].positive_ratio = result[k].neutral_ratio
       /\ result[k].neutral_ratio = result[k].negative_ratio
       /\ RatioSum(result[k]) # RatioScale

\* C2: the buckets of every query are strictly ascending by period start, so
\* no two buckets share a period start.
C2_StrictlyAscending ==
  QueriedBuckets =>
    \A i, j \in DOMAIN result :
      i < j => result[i].time_period < result[j].time_period

\* two buckets out of items stored latest first
C2_Witness ==
  /\ QueriedBuckets
  /\ Len(result) >= 2
  /\ {1, 2} \subseteq InputOf(query.username)
  /\ tweets[1].created_at > tweets[2].created_at
  /\ date_trunc(query.periodType, tweets[1].created_at)
       # date_trunc(query.periodType, tweets[2].created_at)

\* C3: every bucket of every period type carries a total count, which is the
\* number of input items with created_at in [periodStart, periodEnd) and is
\* at least 1, and every input item lies in exactly one bucket.
C3_TotalCountPerBucket ==
  QueriedBuckets =>
    /\ \A k \in DOMAIN result :
         /\ "total_tweets" \in DOMAIN result[k]
         /\ result[k].total_tweets = Cardinality(ItemsIn(result[k]))
         /\ result[k].total_tweets >= 1
    /\ \A i \in InputOf(query.username) :
         Cardinality({k \in DOMAIN result : i \in ItemsIn(result[k])}) = 1

\* C7: a query over no item of the user yields no bucket, for every period
\* type.
C7_EmptyInputNoBuckets ==
  (QueriedBuckets /\ InputOf(query.username) = {}) => result = <<>>

\* a query for a user without items while another user has some
C7_Witness ==
  /\ QueriedBuckets
  /\ InputOf(query.username) = {}
  /\ tweets # <<>>
  /\ result = <<>>

\* C9: the buckets of a query are those of the same query over the same rows
\* in any other order (every reordering is a chain of swaps, and every
\* snapshot is covered), so running the query again returns the same.
C9_SameOutputForSameItems ==
  QueriedBuckets =>
    \A i, j \in DOMAIN tweets :
      i <= j => result = bucketByPeriod(analyses, Swap(tweets, i, j),
                                        query.periodType, query.username)

\* two buckets whose first items were stored in descending order
C9_Witness ==
  /\ QueriedBuckets
  /\ Len(result) = 2
  /\ \E i, j \in InputOf(query.username) :
       /\ i < j
       /\ tweets[i].created_at >= periodEnd(query.periodType, result[1].time_period)
       /\ tweets[j].created_at < result[2].time_period

\* C11: every bucket returned for a user is made of that user's items alone:
\* its period holds an item of the user, each ratio is the quotient of the
\* user's items of that label in the period by the user's items in the
\* period, and a total count, where the query returns one, counts only them.
C11_OnlyItemsOfTheSubject ==
  QueriedBuckets =>
    \A k \in DOMAIN result :
      LET own == ItemsIn(result[k])
          of(label) == Cardinality({i \in own : tweets[i].sentiment = label})
      IN  /\ own # {}
          /\ result[k].positive_ratio = numeric_div(of("positive"), Cardinality(own))
          /\ result[k].neutral_ratio = numeric_div(of("neutral"), Cardinality(own))
          /\ result[k].negative_ratio = numeric_div(of("negative"), Cardinality(own))
          /\ "total_tweets" \in DOMAIN result[k] =>
               result[k].total_tweets = Cardinality(own)

\* a bucket of the user whose period also holds an item of the other user's
\* run, of a label that none of the user's items in the period has
C11_Witness ==
  /\ QueriedBuckets
  /\ \E k \in DOMAIN result :
       \E j \in DOMAIN tweets \ InputOf(query.username) :
         /\ result[k].time_period <= tweets[j].created_at
         /\ tweets[j].created_at < periodEnd(query.periodType, result[k].time_period)
         /\ \A i \in ItemsIn(result[k]) : tweets[i].sentiment # tweets[j].sentiment

(* ---------------- the report's claims ---------------- *)
TopOf(label) ==
  CASE label = "positive" -> result.top_positive
    [] label = "neutral" -> result.top_neutral
    [] label = "negative" -> result.top_negative

\* the input items of the queried user that carry label
Labelled(label) ==
  {i \in InputOf(query.username) : tweets[i].sentiment = label}

Position(item) == CHOOSE i \in DOMAIN tweets : tweets[i].tweet_id = item.tweet_id

\* x is to stand before y: the higher score, then the later created_at, then
\* the earlier place in the input
Precedes(x, y) ==
  \/ x.sentiment_score > y.sentiment_score
  \/ /\ x.sentiment_score = y.sentiment_score
     /\ \/ x.created_at > y.created_at
        \/ x.created_at = y.created_at /\ Position(x) < Position(y)

Min(a, b) == IF a <= b THEN a ELSE b

\* C4: in each top-list every item precedes the items after it by score
\* descending, then later created_at, then input order, and it precedes in
\* the same way every item of its label that the list leaves out.
C4_TopListsRanked ==
  QueriedReport =>
    \A label \in Sentiments :
      LET top == TopOf(label)
      IN  /\ \A i, j \in DOMAIN top : i < j => Precedes(top[i], top[j])
          /\ \A x \in Labelled(label) :
               (\A i \in DOMAIN top : top[i] # tweets[x]) =>
                 \A i \in DOMAIN top : Precedes(top[i], tweets[x])

\* two items of equal score lead a list against their input order, the later
\* created_at first
C4_Witness ==
  /\ QueriedReport
  /\ \E label \in Sentiments :
       LET top == TopOf(label)
       IN  /\ Len(top) >= 2
           /\ top[1].sentiment_score = top[2].sentiment_score
           /\ top[1].created_at > top[2].created_at
           /\ Position(top[1]) > Position(top[2])

\* C5: each top-list holds only input items of its own label, none twice,
\* and its length is min(topN, k) for the k input items of that label.
C5_TopListLength ==
  QueriedReport =>
    \A label \in Sentiments :
      LET top == TopOf(label)
      IN  /\ \A i \in DOMAIN top :
               /\ top[i].sentiment = label
               /\ \E x \in Labelled(label) : tweets[x] = top[i]
          /\ \A i, j \in DOMAIN top : top[i] = top[j] => i = j
          /\ Len(top) = Min(query.topN, Cardinality(Labelled(label)))

\* with topN >= 1, one label has more items than topN and its list is cut,
\* while another label's list holds all its items
C5_Witness ==
  /\ QueriedReport
  /\ query.topN >= 1
  /\ \E cut, whole \in Sentiments :
       /\ Cardinality(Labelled(cut)) > query.topN
       /\ Len(TopOf(cut)) = query.topN
       /\ Cardinality(Labelled(whole)) \in 1 .. query.topN
       /\ Len(TopOf(whole)) = Cardinality(Labelled(whole))

\* C6: the summary holds the number of input items of each label, whatever
\* topN is, so the three counts add up to the number of input items.
C6_SummaryRawCounts ==
  QueriedReport =>
    /\ \A label \in Sentiments :
         result.summary[label] = Cardinality(Labelled(label))
    /\ result.summary.positive + result.summary.neutral + result.summary.negative
         = Cardinality(InputOf(query.username))

\* a label has more items than topN lets through
C6_Witness ==
  /\ QueriedReport
  /\ \E label \in Sentiments :
       /\ Cardinality(Labelled(label)) > query.topN
       /\ result.summary[label] > Len(TopOf(label))

\* C8: the report over no item has an all-zero summary and three empty
\* top-lists.
C8_EmptyInputEmptyReport ==
  (QueriedReport /\ InputOf(query.username) = {}) =>
    result = [summary |-> [positive |-> 0, neutral |-> 0, negative |-> 0],
              top_positive |-> <<>>, top_neutral |-> <<>>, top_negative |-> <<>>]

\* a report with topN >= 1 for a user without items
C8_Witness ==
  /\ QueriedReport
  /\ InputOf(query.username) = {}
  /\ query.topN >= 1
  /\ result.top_positive = <<>>
  /\ result.summary.positive = 0

(* ---------------- the store's claims ---------------- *)
\* C10: in every step a stored item keeps its label, its score and its run,
\* and a new analysis run ends up owning as many items as it analysed, also
\* when it analysed content that an earlier run had analysed.
C10_ItemsKeptAndNewRunOwnsItsItems ==
  [][/\ \A i \in DOMAIN tweets, j \in DOMAIN tweets' :
          tweets[i].tweet_id = tweets'[j].tweet_id =>
            /\ tweets'[j].sentiment = tweets[i].sentiment
            /\ tweets'[j].sentiment_score = tweets[i].sentiment_score
            /\ tweets'[j].analysis_id = tweets[i].analysis_id
     /\ Len(analyses') > Len(analyses) =>
          LET run == analyses'[Len(analyses')]
          IN  Cardinality({j \in DOMAIN tweets' :
                             tweets'[j].analysis_id = run.analysis_id})
                = run.tweet_count]_vars

(* ---------------- claims about the page ---------------- *)

LastRequest(search) == search.log[Len(search.log)]
Failed(search) == LastRequest(search).state = "failed"
InFlight(search) == search.pc # "done"

\* C12: within one search the item fetch comes first and alone; the
\* time-series request is issued only once getUserTweets has completed
\* successfully, the report request only once the time-series request has
\* completed successfully, and only the newest request of a search is pending
C12_AggregatesAwaitTheItemFetch ==
  \A s \in DOMAIN searches :
    LET log == searches[s].log
    IN  \A i \in DOMAIN log :
          /\ log[i].request = "getUserTweets" <=> i = 1
          /\ log[i].request = "getWeeklyAnalysis" =>
               log[i - 1].request = "getUserTweets" /\ log[i - 1].state = "ok"
          /\ log[i].request = "getSentimentReports" =>
               log[i - 1].request = "getWeeklyAnalysis" /\ log[i - 1].state = "ok"
          /\ log[i].state = "pending" => i = Len(log)

C12_Witness ==
  \E s \in DOMAIN searches :
    /\ Len(searches[s].log) = 3
    /\ searches[s].log[3].request = "getSentimentReports"

C13_Step ==
  \A s \in DOMAIN searches :
    /\ (InFlight(searches[s]) /\ ~InFlight(searches'[s])) => loading' = FALSE
    /\ (InFlight(searches[s]) /\ Failed(searches'[s])) =>
         /\ ~InFlight(searches'[s])
         /\ LastRequest(searches'[s]).message \in
              {FailureMessage(LastRequest(searches[s]).request), "Failed to fetch"}
         /\ error' = Str(LastRequest(searches'[s]).message)
         /\ Len(searches'[s].log) = Len(searches[s].log)
         /\ timeSeriesData' = timeSeriesData
         /\ sentimentReport' = sentimentReport
    /\ ~InFlight(searches[s]) => searches'[s] = searches[s]

\* C13: the step that ends an invocation of handleSearch sets loading to
\* false, on success and on failure; a failing request sets error to its
\* message, ends the invocation without a further request and leaves
\* timeSeriesData and sentimentReport as they were; and every invocation ends
C13_EndsWithLoadingFalse ==
  /\ [][C13_Step]_vars
  /\ \A s \in 1 .. MaxSearches :
       (s \in DOMAIN searches) ~> (s \in DOMAIN searches /\ ~InFlight(searches[s]))

C13_Witness ==
  \E s \in DOMAIN searches :
    /\ Failed(searches[s])
    /\ LastRequest(searches[s]).request = "getSentimentReports"
    /\ error = Str("Failed to fetch sentiment reports")
    /\ loading = FALSE
    /\ timeSeriesData # <<>>
    /\ sentimentReport = Null

AllSucceeded ==
  /\ searches # <<>>
  /\ \A s \in DOMAIN searches : ~InFlight(searches[s]) /\ ~Failed(searches[s])

\* C14: the graph is rendered only when loading is false, error is null and
\* timeSeriesData is non-empty, the summary only when the graph is rendered
\* and sentimentReport is an object; with an empty time series neither is
\* rendered, and when the searches succeeded no error is rendered either
C14_RenderedOnlyWithData ==
  /\ GraphRendered => loading = FALSE /\ error = Null /\ timeSeriesData # <<>>
  /\ SummaryRendered => GraphRendered /\ sentimentReport.kind = "object"
  /\ timeSeriesData = <<>> => ~GraphRendered /\ ~SummaryRendered
  /\ (AllSucceeded /\ timeSeriesData = <<>>) =>
       ~SpinnerRendered /\ ~ErrorRendered /\ ~GraphRendered /\ ~SummaryRendered

C14_Witness ==
  /\ AllSucceeded
  /\ timeSeriesData = <<>>
  /\ sentimentReport.kind = "object"

\* C15: when graph and summary are rendered together, timeSeriesData and
\* sentimentReport come from searches for the same username
C15_GraphAndSummaryOfOneSearch ==
  (GraphRendered /\ SummaryRendered) => seriesOf = reportOf

\* C16: while a search is in flight loading is true and neither graph nor
\* summary nor error is rendered
C16_LoadingWhileInFlight ==
  (\E s \in DOMAIN searches : InFlight(searches[s])) =>
    loading /\ ~GraphRendered /\ ~SummaryRendered /\ ~ErrorRendered
====
